---- MODULE Spec2Model ----
(***************************************************************************)
(* drizzle-effect: derivation of effect Schema validators from Drizzle     *)
(* table columns (src/drizzle-effect/src/index.ts).                        *)
(*                                                                         *)
(* Validators are terms (records tagged by the Schema combinator that      *)
(* built them), JavaScript values are records tagged by their typeof-like  *)
(* kind, and JavaScript objects are sequences of [key, value] pairs kept   *)
(* in own-property order (array-index keys ascending, then string keys in  *)
(* insertion order).                                                       *)
(***************************************************************************)
EXTENDS Integers, Sequences, FiniteSets, TLC

VARIABLES pc, table, refineGiven, refine, mode, schema, calls, input, result,
          column, mapped, selectSchema, selectResult

vars == <<pc, table, refineGiven, refine, mode, schema, calls, input, result,
          column, mapped, selectSchema, selectResult>>

(***************************************************************************)
(* Bounds of the model.                                                    *)
(***************************************************************************)
\* columns per table
MaxCols == 2
\* entries per refinement map
MaxRefine == 2
\* declared length of the bounded-text columns that are enumerated
VarcharLength == 2

\* minLength(3) of the refinement used by the tests
MinTitleLength == 3

(***************************************************************************)
(* JavaScript values.                                                      *)
(***************************************************************************)
Undefined == [t |-> "undefined"]
Null == [t |-> "null"]
Str(s) == [t |-> "string", s |-> s]
Num(n) == [t |-> "number", n |-> n]
BigIntVal(n) == [t |-> "bigint", n |-> n]
Bool(b) == [t |-> "boolean", b |-> b]
DateVal == [t |-> "date"]
Obj == [t |-> "object"]
Arr(items) == [t |-> "array", items |-> items]

UUIDSample == "123e4567-e89b-42d3-a456-426614174000"
UUIDStrings == {UUIDSample}

\* values tried as the value of a field, in order of preference as a sample
ValueSeq ==
    << Str("a"), Str("JS"), Str("JSX"), Str(UUIDSample), Num(123), BigIntVal(7),
       Bool(TRUE), DateVal, Obj, Arr(<<>>), Arr(<<Num(123)>>), Null, Undefined >>

Range(s) == {s[i] : i \in DOMAIN s}

(***************************************************************************)
(* JavaScript objects: sequences of [key, value] in own-property order.    *)
(***************************************************************************)
ArrayIndexKeys == {"0", "1"}
KeyIndex(k) == IF k = "0" THEN 0 ELSE 1
IsArrayIndex(k) == k \in ArrayIndexKeys

ObjKeys(o) == [i \in DOMAIN o |-> o[i].key]
ObjHas(o, k) == \E i \in DOMAIN o : o[i].key = k
ObjGet(o, k) == o[CHOOSE i \in DOMAIN o : o[i].key = k].value

\* number of leading entries of o that stay before a new key k
InsertPos(o, k) ==
    IF IsArrayIndex(k)
    THEN Cardinality({i \in DOMAIN o :
                        IsArrayIndex(o[i].key) /\ KeyIndex(o[i].key) < KeyIndex(k)})
    ELSE Len(o)

\* o[k] = v
ObjSet(o, k, v) ==
    IF ObjHas(o, k)
    THEN [i \in DOMAIN o |-> IF o[i].key = k THEN [key |-> k, value |-> v] ELSE o[i]]
    ELSE LET p == InsertPos(o, k)
         IN  SubSeq(o, 1, p) \o <<[key |-> k, value |-> v]>> \o SubSeq(o, p + 1, Len(o))

RECURSIVE AssignAll(_, _)
AssignAll(target, entries) ==
    IF entries = <<>> THEN target
    ELSE AssignAll(ObjSet(target, Head(entries).key, Head(entries).value), Tail(entries))

\* Object.fromEntries(entries)
FromEntries(entries) == AssignAll(<<>>, entries)

(***************************************************************************)
(* Validators (effect Schema terms).                                       *)
(***************************************************************************)
SString == [tag |-> "String"]
SNumber == [tag |-> "Number"]
SBoolean == [tag |-> "Boolean"]
SNull == [tag |-> "Null"]
SAny == [tag |-> "Any"]
SUnknown == [tag |-> "Unknown"]
SUUID == [tag |-> "UUID"]
SBigIntFromSelf == [tag |-> "BigIntFromSelf"]
SDateFromSelf == [tag |-> "DateFromSelf"]
SLiteral(values) == [tag |-> "Literal", values |-> values]
SUnion(members) == [tag |-> "Union", members |-> members]
SArray(of) == [tag |-> "Array", of |-> of]
SRecord(k, v) == [tag |-> "Record", key |-> k, value |-> v]
SMaxLength(n, of) == [tag |-> "maxLength", n |-> n, of |-> of]
SMinLength(n, of) == [tag |-> "minLength", n |-> n, of |-> of]
\* Schema.NullOr(s) is Union(s, Null)
NullOr(s) == SUnion(<<s, SNull>>)
\* Schema.optional(s): an optional property signature over s | undefined
Optional(s) == [tag |-> "optional", of |-> s]

IsOptionalSignature(s) == s.tag = "optional"

JsonValue ==
    SUnion(<< SString, SNumber, SBoolean, SNull,
              SRecord(SString, SUnknown), SArray(SUnknown) >>)

\* whether validator s decodes value x successfully (no validator used here
\* transforms, so a successful decode returns x itself)
RECURSIVE Accepts(_, _)
Accepts(s, x) ==
    CASE s.tag = "String" -> x.t = "string"
      [] s.tag = "Number" -> x.t = "number"
      [] s.tag = "Boolean" -> x.t = "boolean"
      [] s.tag = "Null" -> x.t = "null"
      [] s.tag = "Any" -> TRUE
      [] s.tag = "Unknown" -> TRUE
      [] s.tag = "UUID" -> x.t = "string" /\ x.s \in UUIDStrings
      [] s.tag = "BigIntFromSelf" -> x.t = "bigint"
      [] s.tag = "DateFromSelf" -> x.t = "date"
      [] s.tag = "Literal" -> x.t = "string" /\ x.s \in Range(s.values)
      [] s.tag = "Union" -> \E i \in DOMAIN s.members : Accepts(s.members[i], x)
      [] s.tag = "Array" ->
            x.t = "array" /\ \A i \in DOMAIN x.items : Accepts(s.of, x.items[i])
      [] s.tag = "Record" -> x.t \in {"object", "date"}
      [] s.tag = "maxLength" ->
            Accepts(s.of, x) /\ x.t = "string" /\ Len(x.s) <= s.n
      [] s.tag = "minLength" ->
            Accepts(s.of, x) /\ x.t = "string" /\ Len(x.s) >= s.n
      [] s.tag = "optional" -> x.t = "undefined" \/ Accepts(s.of, x)

\* Schema.Struct(fields) decoding the object rec (default parse options:
\* a missing key of a required field is decoded as undefined, excess keys
\* are dropped)
FieldDecodes(field, rec) ==
    IF ObjHas(rec, field.key)
    THEN Accepts(field.value, ObjGet(rec, field.key))
    ELSE IsOptionalSignature(field.value) \/ Accepts(field.value, Undefined)

DecodeStruct(fields, rec) ==
    [ok |-> \A i \in DOMAIN fields : FieldDecodes(fields[i], rec)]

(***************************************************************************)
(* Column descriptors.                                                     *)
(***************************************************************************)
Column(dataType, columnType, notNull, hasDefault, enumIsArray, enumValues, lengthIsNumber, length) ==
    [dataType |-> dataType, columnType |-> columnType,
     notNull |-> notNull, hasDefault |-> hasDefault,
     enumIsArray |-> enumIsArray, enumValues |-> enumValues,
     lengthIsNumber |-> lengthIsNumber, length |-> length]

ArrayColumn(notNull, hasDefault, enumIsArray, enumValues, baseColumn) ==
    [dataType |-> "array", columnType |-> "PgArray",
     notNull |-> notNull, hasDefault |-> hasDefault,
     enumIsArray |-> enumIsArray, enumValues |-> enumValues,
     lengthIsNumber |-> FALSE, length |-> 0, baseColumn |-> baseColumn]

BoundedTextTypes ==
    {"PgChar", "PgVarchar", "MySqlVarChar", "MySqlVarBinary", "MySqlChar", "SQLiteText"}

\* isWithEnum(column)
isWithEnumStringOnly(c) ==
    c.dataType = "string" /\ c.enumIsArray /\ Len(c.enumValues) > 0

isWithEnum(c) == c.enumIsArray /\ Len(c.enumValues) > 0

\* the string branch of mapColumnToSchema
StringSchema(c) ==
    IF c.columnType \in BoundedTextTypes /\ c.lengthIsNumber
    THEN SMaxLength(c.length, SString)
    ELSE SString

RECURSIVE mapColumnToSchema(_)
mapColumnToSchema(c) ==
    IF isWithEnum(c)
    THEN (IF Len(c.enumValues) # 0 THEN SLiteral(c.enumValues) ELSE SString)
    ELSE IF c.columnType = "PgUUID" THEN SUUID
    ELSE IF c.dataType = "custom" THEN SAny
    ELSE IF c.dataType = "json" THEN JsonValue
    ELSE IF c.dataType = "array" THEN SArray(mapColumnToSchema(c.baseColumn))
    ELSE IF c.dataType = "number" THEN SNumber
    ELSE IF c.dataType = "bigint" THEN SBigIntFromSelf
    ELSE IF c.dataType = "boolean" THEN SBoolean
    ELSE IF c.dataType = "date" THEN SDateFromSelf
    ELSE IF c.dataType = "string" THEN StringSchema(c)
    ELSE SAny

(***************************************************************************)
(* The declared type ColumnSchema<TColumn>: the decoded (Type) and encoded *)
(* (Encoded) side the type assigns to a column.  A column "extends         *)
(* { enumValues: [string, ...string[]] }" when it carries a non-empty list *)
(* of declared values; Schema.Schema<X> is Schema.Schema<X, X>.            *)
(***************************************************************************)
Shape(type, encoded) == [type |-> type, encoded |-> encoded, values |-> <<>>]
LiteralShape(values) == [type |-> "literal", encoded |-> "literal", values |-> values]

PgBigIntTypes == {"PgBigInt53", "PgBigInt64"}

ColumnSchema(c) ==
    IF c.dataType = "custom" THEN Shape("any", "any")
    ELSE IF c.dataType = "json" THEN Shape("JsonValue", "JsonValue")
    ELSE IF c.enumIsArray /\ Len(c.enumValues) > 0 THEN LiteralShape(c.enumValues)
    ELSE IF c.dataType = "bigint" THEN Shape("bigint", "bigint")
    ELSE IF c.dataType = "number"
         THEN (IF c.columnType \in PgBigIntTypes
               THEN Shape("bigint", "number") ELSE Shape("number", "number"))
    ELSE IF c.dataType = "string"
         THEN (IF c.columnType = "PgNumeric" THEN Shape("number", "string")
               ELSE IF c.columnType = "PgUUID" THEN Shape("string", "string")
               ELSE IF c.columnType = "PgDateString" THEN Shape("Date", "string")
               ELSE IF c.columnType = "PgTimestampString" THEN Shape("Date", "string")
               ELSE Shape("string", "string"))
    ELSE IF c.dataType = "boolean" THEN Shape("boolean", "boolean")
    ELSE IF c.dataType = "date" THEN Shape("Date", "Date")
    ELSE Shape("any", "any")

\* the Type and Encoded side of the validators mapColumnToSchema builds
SchemaShape(s) ==
    CASE s.tag = "String" -> Shape("string", "string")
      [] s.tag = "UUID" -> Shape("string", "string")
      [] s.tag = "maxLength" -> Shape("string", "string")
      [] s.tag = "Number" -> Shape("number", "number")
      [] s.tag = "BigIntFromSelf" -> Shape("bigint", "bigint")
      [] s.tag = "Boolean" -> Shape("boolean", "boolean")
      [] s.tag = "DateFromSelf" -> Shape("Date", "Date")
      [] s.tag = "Any" -> Shape("any", "any")
      [] s.tag = "Union" -> Shape("JsonValue", "JsonValue")
      [] s.tag = "Literal" -> LiteralShape(s.values)
      [] s.tag = "Array" -> Shape("array", "array")

\* a validator of shape rt is what a declaration of shape decl promises
\* (every validator is a Schema.Schema<any>)
ShapeConforms(rt, decl) == decl.type = "any" \/ rt = decl

(***************************************************************************)
(* The columns mapColumnToSchema is applied to.                            *)
(***************************************************************************)
EnumSample == <<"a", "b">>

EnumOptions ==
    { [isArray |-> FALSE, values |-> <<>>],
      [isArray |-> TRUE, values |-> <<>>],
      [isArray |-> TRUE, values |-> EnumSample] }

LengthOptions ==
    { [isNumber |-> FALSE, n |-> 0], [isNumber |-> TRUE, n |-> VarcharLength] }

\* <<columnType, dataType>> of the column classes that are enumerated
ColumnKinds ==
    { <<"PgText", "string">>, <<"PgVarchar", "string">>, <<"PgChar", "string">>,
      <<"MySqlVarChar", "string">>, <<"MySqlVarBinary", "string">>,
      <<"MySqlChar", "string">>, <<"SQLiteText", "string">>,
      <<"PgEnumColumn", "string">>, <<"PgUUID", "string">>,
      <<"PgNumeric", "string">>, <<"PgDateString", "string">>,
      <<"PgTimestampString", "string">>,
      <<"PgInteger", "number">>, <<"PgSerial", "number">>,
      <<"PgBigInt53", "number">>, <<"PgBigInt64", "bigint">>,
      <<"PgBoolean", "boolean">>, <<"PgTimestamp", "date">>,
      <<"PgJsonb", "json">>, <<"PgCustomColumn", "custom">>,
      <<"PgBytea", "buffer">> }

ScalarColumns(flags) ==
    { Column(k[2], k[1], f[1], f[2], e.isArray, e.values, l.isNumber, l.n) :
        k \in ColumnKinds, f \in flags, e \in EnumOptions, l \in LengthOptions }

ArrayBases ==
    { Column("number", "PgInteger", TRUE, FALSE, FALSE, <<>>, FALSE, 0),
      Column("string", "PgText", TRUE, FALSE, TRUE, EnumSample, FALSE, 0),
      Column("string", "PgVarchar", TRUE, FALSE, FALSE, <<>>, TRUE, VarcharLength) }

ArrayColumns(flags) ==
    { ArrayColumn(f[1], f[2], e.isArray, e.values, b) :
        f \in flags, e \in EnumOptions, b \in ArrayBases }

MapColumns == ScalarColumns({<<TRUE, FALSE>>}) \cup ArrayColumns({<<TRUE, FALSE>>})

NoColumn == Column("none", "none", TRUE, FALSE, FALSE, <<>>, FALSE, 0)

(***************************************************************************)
(* SpecMap: mapColumnToSchema applied to one column.                       *)
(***************************************************************************)
InitMap ==
    /\ pc = "column"
    /\ column \in MapColumns
    /\ mapped = SAny
    /\ table = <<>>
    /\ refineGiven = FALSE
    /\ refine = <<>>
    /\ mode = "none"
    /\ schema = <<>>
    /\ calls = <<>>
    /\ input = <<>>
    /\ result = [ok |-> FALSE]
    /\ selectSchema = <<>>
    /\ selectResult = [ok |-> FALSE]

MapColumn ==
    /\ pc = "column"
    /\ mapped' = mapColumnToSchema(column)
    /\ pc' = "mapped"
    /\ UNCHANGED <<table, refineGiven, refine, mode, schema, calls, input, result, column, selectSchema, selectResult>>

NextMap == MapColumn

SpecMap == InitMap /\ [][NextMap]_vars

\* C7: a column with a non-empty enumerated-values list is mapped to the
\* literal-set validator over exactly its declared values, whatever its data
\* kind or column class; a column whose list is absent or empty is never
\* mapped to a literal-set validator.
C7_EnumShortCircuits ==
    pc = "mapped" =>
        IF column.enumIsArray /\ Len(column.enumValues) > 0
        THEN mapped = SLiteral(column.enumValues)
        ELSE mapped.tag # "Literal"

C7_Witness ==
    /\ pc = "mapped"
    /\ column.dataType = "custom"
    /\ column.enumValues = EnumSample
    /\ mapped = SLiteral(EnumSample)

\* C10: the validator mapColumnToSchema returns has the decoded/encoded
\* shape the declared ColumnSchema type assigns to the column.
C10_RuntimeMatchesColumnSchema ==
    pc = "mapped" => ShapeConforms(SchemaShape(mapped), ColumnSchema(column))

(***************************************************************************)
(* Refinement entries.  A plain entry is a validator; a function entry     *)
(* receives the mapping and returns a validator:                           *)
(*   pipeMinLength: (m) => m[arg].pipe(Schema.minLength(3))                *)
(*   pick:          (m) => m[arg]                                          *)
(***************************************************************************)
RefineFn(fn, arg) == [tag |-> "function", fn |-> fn, arg |-> arg]

\* typeof v === 'function' (schemas are classes, property signatures objects)
TypeofIsFunction(v) == v.tag # "optional"
IsSchema(v) == v.tag \notin {"function", "optional"}
IsPropertySignature(v) == v.tag = "optional"

IsRefineFunction(v) ==
    TypeofIsFunction(v) /\ ~IsSchema(v) /\ ~IsPropertySignature(v)

\* refineColumn(schemas)
CallRefine(f, schemas) ==
    IF f.fn = "pipeMinLength"
    THEN SMinLength(MinTitleLength, ObjGet(schemas, f.arg))
    ELSE ObjGet(schemas, f.arg)

\* the mapping handed to the function of refine[i]: the object schemaEntries,
\* which holds the auto-derived mapping until Object.assign runs after the
\* whole map
RECURSIVE RefineArgumentMerged(_, _, _)
RefineArgumentMerged(schemaEntries, refinement, i) ==
    IF i = 1 THEN schemaEntries
    ELSE LET prev == RefineArgumentMerged(schemaEntries, refinement, i - 1)
             e == refinement[i - 1]
         IN  ObjSet(prev, e.key,
                    IF IsRefineFunction(e.value) THEN CallRefine(e.value, prev) ELSE e.value)

RefineArgument(schemaEntries, refinement, i) == schemaEntries

\* Object.entries(refinement).map(...)
RefinedEntries(schemaEntries, refinement) ==
    [i \in DOMAIN refinement |->
        [key |-> refinement[i].key,
         value |-> IF IsRefineFunction(refinement[i].value)
                   THEN CallRefine(refinement[i].value,
                                   RefineArgument(schemaEntries, refinement, i))
                   ELSE refinement[i].value]]

\* the invocations of refinement functions made by that map, in order
RECURSIVE RefineCallsFrom(_, _, _)
RefineCallsFrom(schemaEntries, refinement, i) ==
    IF i > Len(refinement) THEN <<>>
    ELSE (IF IsRefineFunction(refinement[i].value)
          THEN << [key |-> refinement[i].key,
                   seen |-> RefineArgument(schemaEntries, refinement, i),
                   returned |-> CallRefine(refinement[i].value,
                                           RefineArgument(schemaEntries, refinement, i))] >>
          ELSE <<>>)
         \o RefineCallsFrom(schemaEntries, refinement, i + 1)

RefineCalls(schemaEntries, refinement) == RefineCallsFrom(schemaEntries, refinement, 1)

\* columnEntries.map(([name, column]) => [name, mapColumnToSchema(column)])
MappedEntries(columnEntries) ==
    [i \in DOMAIN columnEntries |->
        [key |-> columnEntries[i].key,
         value |-> mapColumnToSchema(columnEntries[i].value)]]

\* Object.assign(schemaEntries, Object.fromEntries(refinedEntries))
ObjectAssignMoving(target, source) ==
    SelectSeq(target, LAMBDA e : ~ObjHas(source, e.key)) \o source

ObjectAssign(target, source) == AssignAll(target, source)

\* schemaEntries after "Apply refinements"
MergeRefinementsAutoWins(schemaEntries, given, refinement) ==
    IF given
    THEN ObjectAssign(FromEntries(RefinedEntries(schemaEntries, refinement)), schemaEntries)
    ELSE schemaEntries

MergeRefinements(schemaEntries, given, refinement) ==
    IF given
    THEN ObjectAssign(schemaEntries, FromEntries(RefinedEntries(schemaEntries, refinement)))
    ELSE schemaEntries

\* one iteration of the insert loop: the new schemaEntries[name]
InsertPropertyDefaultFirst(c, entry) ==
    IF c.hasDefault THEN Optional(entry)
    ELSE IF ~c.notNull THEN Optional(NullOr(entry))
    ELSE entry

InsertPropertyDefaultNullable(c, entry) ==
    IF ~c.notNull \/ c.hasDefault THEN Optional(NullOr(entry)) ELSE entry

InsertPropertyNeverNull(c, entry) ==
    IF ~c.notNull \/ c.hasDefault THEN Optional(entry) ELSE entry

InsertProperty(c, entry) ==
    IF ~c.notNull THEN Optional(NullOr(entry))
    ELSE IF c.hasDefault THEN Optional(entry)
    ELSE entry

\* one iteration of the select loop
SelectPropertyOptional(c, entry) ==
    IF ~c.notNull THEN Optional(NullOr(entry)) ELSE entry

SelectProperty(c, entry) ==
    IF ~c.notNull THEN NullOr(entry) ELSE entry

RECURSIVE ApplyInsertRules(_, _)
ApplyInsertRules(schemaEntries, columnEntries) ==
    IF columnEntries = <<>> THEN schemaEntries
    ELSE LET name == Head(columnEntries).key
             c == Head(columnEntries).value
         IN  ApplyInsertRules(
                 ObjSet(schemaEntries, name, InsertProperty(c, ObjGet(schemaEntries, name))),
                 Tail(columnEntries))

RECURSIVE ApplySelectRules(_, _)
ApplySelectRules(schemaEntries, columnEntries) ==
    IF columnEntries = <<>> THEN schemaEntries
    ELSE LET name == Head(columnEntries).key
             c == Head(columnEntries).value
         IN  ApplySelectRules(
                 ObjSet(schemaEntries, name, SelectProperty(c, ObjGet(schemaEntries, name))),
                 Tail(columnEntries))

\* the fields of Schema.Struct(schemaEntries) returned by createInsertSchema
InsertSchemaFieldsSkipFunctions(columns, given, refinement) ==
    ApplyInsertRules(
        MergeRefinements(FromEntries(MappedEntries(columns)), given, refinement),
        SelectSeq(columns,
                  LAMBDA e : ~(/\ given
                               /\ ObjHas(refinement, e.key)
                               /\ IsRefineFunction(ObjGet(refinement, e.key)))))

InsertSchemaFields(columns, given, refinement) ==
    ApplyInsertRules(
        MergeRefinements(FromEntries(MappedEntries(columns)), given, refinement),
        columns)

\* the fields of Schema.Struct(schemaEntries) returned by createSelectSchema
SelectSchemaFields(columns, given, refinement) ==
    ApplySelectRules(
        MergeRefinements(FromEntries(MappedEntries(columns)), given, refinement),
        columns)

\* the refinement-function invocations of one derivation call
DerivationCalls(columns, given, refinement) ==
    IF given
    THEN RefineCalls(FromEntries(MappedEntries(columns)), refinement)
    ELSE <<>>

(***************************************************************************)
(* The tables, refinement maps and records the derivation is run on.       *)
(***************************************************************************)
ColumnNames == <<"title", "id", "data">>
ExtraKeys == {"0", "extra"}
AllFlags == BOOLEAN \X BOOLEAN

\* one column class per data kind, and an enum column
DeriveColumns ==
    { Column("string", "PgVarchar", f[1], f[2], FALSE, <<>>, TRUE, VarcharLength) : f \in AllFlags }
    \cup { Column("string", "PgText", f[1], f[2], TRUE, EnumSample, FALSE, 0) : f \in AllFlags }
    \cup { Column("number", "PgInteger", f[1], f[2], FALSE, <<>>, FALSE, 0) : f \in AllFlags }
    \cup { Column("bigint", "PgBigInt64", f[1], f[2], FALSE, <<>>, FALSE, 0) : f \in AllFlags }
    \cup { Column("boolean", "PgBoolean", f[1], f[2], FALSE, <<>>, FALSE, 0) : f \in AllFlags }
    \cup { Column("date", "PgTimestamp", f[1], f[2], FALSE, <<>>, FALSE, 0) : f \in AllFlags }
    \cup { Column("json", "PgJsonb", f[1], f[2], FALSE, <<>>, FALSE, 0) : f \in AllFlags }
    \cup { Column("custom", "PgCustomColumn", f[1], f[2], FALSE, <<>>, FALSE, 0) : f \in AllFlags }
    \cup { Column("buffer", "PgBytea", f[1], f[2], FALSE, <<>>, FALSE, 0) : f \in AllFlags }
    \cup { ArrayColumn(f[1], f[2], FALSE, <<>>,
                       Column("number", "PgInteger", TRUE, FALSE, FALSE, <<>>, FALSE, 0)) :
             f \in AllFlags }

\* further columns, as in the courses table of the tests: a serial id and a
\* jsonb column with a default
SiblingColumns ==
    { Column("number", "PgSerial", TRUE, TRUE, FALSE, <<>>, FALSE, 0),
      Column("json", "PgJsonb", FALSE, TRUE, FALSE, <<>>, FALSE, 0) }

RECURSIVE TablesOf(_)
TablesOf(n) ==
    IF n = 1
    THEN { <<[key |-> ColumnNames[1], value |-> c]>> : c \in DeriveColumns }
    ELSE { Append(t, [key |-> ColumnNames[n], value |-> c]) :
             t \in TablesOf(n - 1), c \in SiblingColumns }

Tables == UNION { TablesOf(n) : n \in 1..MaxCols }

RefineValues(t, k) ==
    { SNumber,
      IF k = t[1].key THEN RefineFn("pipeMinLength", k) ELSE RefineFn("pick", t[1].key) }

RefineEntries(t) ==
    UNION { { [key |-> k, value |-> v] : v \in RefineValues(t, k) } :
              k \in Range(ObjKeys(t)) \cup ExtraKeys }

HasDistinctKeys(s) == \A i, j \in DOMAIN s : s[i].key = s[j].key => i = j

\* refinement maps are objects: their entries come in own-property order
Refines(t) ==
    { FromEntries(s) :
        s \in { q \in UNION { [1..n -> RefineEntries(t)] : n \in 0..MaxRefine } :
                  HasDistinctKeys(q) } }

MinOf(S) == CHOOSE i \in S : \A j \in S : i <= j

\* a value the validator s accepts, undefined when it accepts none of ValueSeq
SampleFor(s) ==
    LET ok == { i \in DOMAIN ValueSeq : Accepts(s, ValueSeq[i]) }
    IN  IF ok = {} THEN Undefined ELSE ValueSeq[MinOf(ok)]

SampleRecord(fields) ==
    [i \in DOMAIN fields |-> [key |-> fields[i].key, value |-> SampleFor(fields[i].value)]]

ProbeValues == { Null, Str("JS"), Num(123) }

ObjDelete(o, k) == SelectSeq(o, LAMBDA e : e.key # k)

\* a record every field of which holds an accepted value, and the records
\* that differ from it in one column: omitted, or set to a probe value
ProbeRecords(t, fields) ==
    { SampleRecord(fields) }
    \cup { ObjDelete(SampleRecord(fields), k) : k \in Range(ObjKeys(t)) }
    \cup { ObjSet(SampleRecord(fields), k, v) : k \in Range(ObjKeys(t)), v \in ProbeValues }

(***************************************************************************)
(* Spec: one derivation call, then one decode of its schema.               *)
(***************************************************************************)
Init ==
    /\ pc = "input"
    /\ table \in Tables
    /\ refineGiven \in BOOLEAN
    /\ refine \in (IF refineGiven THEN Refines(table) ELSE {<<>>})
    /\ mode \in {"insert", "select"}
    /\ schema = <<>>
    /\ calls = <<>>
    /\ input = <<>>
    /\ result = [ok |-> FALSE]
    /\ selectSchema = <<>>
    /\ selectResult = [ok |-> FALSE]
    /\ column = NoColumn
    /\ mapped = SAny

createInsertSchema ==
    /\ pc = "input"
    /\ mode = "insert"
    /\ schema' = InsertSchemaFields(table, refineGiven, refine)
    /\ calls' = DerivationCalls(table, refineGiven, refine)
    /\ pc' = "derived"
    /\ UNCHANGED <<table, refineGiven, refine, mode, input, result, column, mapped, selectSchema, selectResult>>

createSelectSchema ==
    /\ pc = "input"
    /\ mode = "select"
    /\ schema' = SelectSchemaFields(table, refineGiven, refine)
    /\ calls' = DerivationCalls(table, refineGiven, refine)
    /\ pc' = "derived"
    /\ UNCHANGED <<table, refineGiven, refine, mode, input, result, column, mapped, selectSchema, selectResult>>

\* Schema.decodeUnknownEither(schema)(rec)
Decode ==
    /\ pc = "derived"
    /\ \E rec \in ProbeRecords(table, schema) :
          /\ input' = rec
          /\ result' = DecodeStruct(schema, rec)
    /\ pc' = "decoded"
    /\ UNCHANGED <<table, refineGiven, refine, mode, schema, calls, column, mapped, selectSchema, selectResult>>

Next == createInsertSchema \/ createSelectSchema \/ Decode

Spec == Init /\ [][Next]_vars

(***************************************************************************)
(* Vocabulary of the properties.                                           *)
(***************************************************************************)
Derived == pc \in {"derived", "decoded"}
Decoded == pc = "decoded"
Cols == DOMAIN table
NameOf(i) == table[i].key
ColumnOf(i) == table[i].value
IsRefined(i) == refineGiven /\ ObjHas(refine, NameOf(i))
FieldOf(i) == ObjGet(schema, NameOf(i))
AutoOf(i) == mapColumnToSchema(ColumnOf(i))
AutoMapping == [i \in Cols |-> [key |-> NameOf(i), value |-> AutoOf(i)]]

\* the column's entry after the refinement merge
BaseOf(i) ==
    IF ~IsRefined(i) THEN AutoOf(i)
    ELSE IF IsRefineFunction(ObjGet(refine, NameOf(i)))
         THEN CallRefine(ObjGet(refine, NameOf(i)), AutoMapping)
         ELSE ObjGet(refine, NameOf(i))

InsertWrapped(c, base) ==
    IF c.notNull = FALSE THEN [tag |-> "optional", of |-> SUnion(<<base, SNull>>)]
    ELSE IF c.hasDefault THEN [tag |-> "optional", of |-> base]
    ELSE base

SelectWrapped(c, base) ==
    IF c.notNull = FALSE THEN SUnion(<<base, SNull>>) ELSE base

ModeWrapped(c, base) ==
    IF mode = "insert" THEN InsertWrapped(c, base) ELSE SelectWrapped(c, base)

\* the decoded record holds an accepted value in every field but column i's
OthersDecode(i) ==
    \A j \in DOMAIN schema : schema[j].key # NameOf(i) => FieldDecodes(schema[j], input)

OmitsColumn(i) == ~ObjHas(input, NameOf(i))
HoldsInColumn(i, v) == ObjHas(input, NameOf(i)) /\ ObjGet(input, NameOf(i)) = v

FunctionEntries == SelectSeq(refine, LAMBDA e : IsRefineFunction(e.value))

\* C1: createInsertSchema gives an unrefined column the optional-and-nullable
\* wrapping of its mapped validator when it is nullable (whatever its
\* has-default flag), else the optional wrapping when it has a default, else
\* the mapped validator unchanged.
C1_InsertWrapping ==
    (Derived /\ mode = "insert") =>
        \A i \in Cols :
            ~IsRefined(i) =>
                FieldOf(i) =
                    (IF ColumnOf(i).notNull = FALSE
                     THEN [tag |-> "optional", of |-> SUnion(<<AutoOf(i), SNull>>)]
                     ELSE IF ColumnOf(i).hasDefault
                          THEN [tag |-> "optional", of |-> AutoOf(i)]
                          ELSE AutoOf(i))

C1_Witness ==
    /\ pc = "derived"
    /\ mode = "insert"
    /\ Len(table) = 2
    /\ ~IsRefined(1)
    /\ IsRefined(2)
    /\ ColumnOf(1).notNull = FALSE
    /\ ColumnOf(1).hasDefault
    /\ ColumnOf(1).dataType = "string"
    /\ FieldOf(1) = Optional(NullOr(SMaxLength(VarcharLength, SString)))

\* C2 (as stated): createSelectSchema never makes a field optional, wraps a
\* nullable column's base validator as nullable only and leaves the others
\* unchanged, whatever has-default is; a record omitting a nullable column
\* fails to decode and the same record with null there succeeds.
C2_SelectOmittedNullableFails ==
    (mode = "select" /\ Derived) =>
        \A i \in Cols :
            /\ ~IsOptionalSignature(FieldOf(i))
            /\ FieldOf(i) = SelectWrapped(ColumnOf(i), BaseOf(i))
            /\ (Decoded /\ ColumnOf(i).notNull = FALSE /\ OthersDecode(i)) =>
                  /\ OmitsColumn(i) => ~result.ok
                  /\ HoldsInColumn(i, Null) => result.ok

\* C2 (amended): as above, except that a record omitting a nullable column
\* fails to decode exactly when the column's base validator rejects
\* undefined: a missing key is decoded as undefined, which the
\* accept-anything validator of custom and unrecognised kinds accepts.
C2_SelectWrapping ==
    (mode = "select" /\ Derived) =>
        \A i \in Cols :
            /\ ~IsOptionalSignature(FieldOf(i))
            /\ FieldOf(i) = SelectWrapped(ColumnOf(i), BaseOf(i))
            /\ (Decoded /\ ColumnOf(i).notNull = FALSE /\ OthersDecode(i)) =>
                  /\ OmitsColumn(i) => (result.ok <=> Accepts(BaseOf(i), Undefined))
                  /\ HoldsInColumn(i, Null) => result.ok

C2_Witness ==
    /\ Decoded
    /\ mode = "select"
    /\ ColumnOf(1).notNull = FALSE
    /\ ColumnOf(1).hasDefault
    /\ ColumnOf(1).dataType = "json"
    /\ ~IsRefined(1)
    /\ OthersDecode(1)
    /\ OmitsColumn(1)
    /\ ~result.ok

\* C3: the derived schema holds every column of the table exactly once, and
\* the columns' fields come in the table's column order, whatever the
\* refinement map.
C3_ColumnsOnceInOrder ==
    Derived =>
        SelectSeq(ObjKeys(schema), LAMBDA k : k \in Range(ObjKeys(table))) = ObjKeys(table)

C3_Witness ==
    /\ pc = "derived"
    /\ Len(table) = 2
    /\ Len(refine) = 2
    /\ IsRefined(2)
    /\ ObjHas(refine, "0")
    /\ ObjKeys(schema) = <<"0">> \o ObjKeys(table)

\* C4: a plain validator V given for a column replaces the column's mapped
\* validator: the field is the mode's wrapping applied to V; a column
\* overridden with the number validator decodes a number and rejects a string.
C4_PlainRefinementReplaces ==
    Derived =>
        \A i \in Cols :
            (IsRefined(i) /\ ~IsRefineFunction(ObjGet(refine, NameOf(i)))) =>
                /\ FieldOf(i) = ModeWrapped(ColumnOf(i), ObjGet(refine, NameOf(i)))
                /\ (Decoded /\ ObjGet(refine, NameOf(i)) = SNumber /\ OthersDecode(i)) =>
                      /\ HoldsInColumn(i, Num(123)) => result.ok
                      /\ HoldsInColumn(i, Str("JS")) => ~result.ok

C4_Witness ==
    /\ Decoded
    /\ mode = "insert"
    /\ ColumnOf(1).dataType = "string"
    /\ ColumnOf(1).notNull = FALSE
    /\ IsRefined(1)
    /\ ObjGet(refine, NameOf(1)) = SNumber
    /\ OthersDecode(1)
    /\ HoldsInColumn(1, Num(123))
    /\ result.ok

\* C5: every function entry of the refinement map is invoked exactly once,
\* in the map's order, with a mapping that holds every column's mapped
\* validator, neither wrapped nor replaced by a refinement; what it returns
\* becomes the entry of its key.
C5_FunctionSeesAutoMapping ==
    Derived =>
        /\ Len(calls) = Len(FunctionEntries)
        /\ \A n \in DOMAIN calls :
              /\ calls[n].key = FunctionEntries[n].key
              /\ ObjKeys(calls[n].seen) = ObjKeys(table)
              /\ \A i \in Cols : ObjGet(calls[n].seen, NameOf(i)) = AutoOf(i)
              /\ ObjGet(schema, calls[n].key) \in
                    { calls[n].returned, NullOr(calls[n].returned),
                      Optional(calls[n].returned), Optional(NullOr(calls[n].returned)) }

C5_Witness ==
    /\ pc = "derived"
    /\ Len(table) = 2
    /\ Len(refine) = 2
    /\ refine[1].key = NameOf(1)
    /\ ~IsRefineFunction(refine[1].value)
    /\ refine[2].key = NameOf(2)
    /\ IsRefineFunction(refine[2].value)
    /\ Len(calls) = 1
    /\ calls[1].returned = AutoOf(1)

\* C6 (as stated): for a column whose refinement entry is a function, the
\* field of the derived schema is exactly the validator the function returned.
C6_FunctionRefinementUnwrapped ==
    Derived =>
        \A i \in Cols :
            (IsRefined(i) /\ IsRefineFunction(ObjGet(refine, NameOf(i)))) =>
                FieldOf(i) = CallRefine(ObjGet(refine, NameOf(i)), AutoMapping)

\* C6 (amended): for a column whose refinement entry is a function, the field
\* is the mode's optional/nullable wrapping, chosen from the column's
\* nullability and has-default as for any other column, applied to the
\* validator the function returned.
C6_FunctionRefinementWrapped ==
    Derived =>
        \A i \in Cols :
            (IsRefined(i) /\ IsRefineFunction(ObjGet(refine, NameOf(i)))) =>
                FieldOf(i) =
                    ModeWrapped(ColumnOf(i),
                                CallRefine(ObjGet(refine, NameOf(i)), AutoMapping))

C6_Witness ==
    /\ pc = "derived"
    /\ mode = "insert"
    /\ IsRefined(1)
    /\ IsRefineFunction(ObjGet(refine, NameOf(1)))
    /\ ColumnOf(1).notNull = FALSE
    /\ ColumnOf(1).dataType = "string"
    /\ FieldOf(1) =
          Optional(NullOr(SMinLength(MinTitleLength, SMaxLength(VarcharLength, SString))))

\* the data kinds mapColumnToSchema recognises
KnownKinds ==
    {"custom", "json", "array", "number", "bigint", "boolean", "date", "string"}

\* the column's mapped validator is the JSON union or accept-anything
MapsToNullAccepting(c) ==
    /\ ~(c.enumIsArray /\ Len(c.enumValues) > 0)
    /\ c.columnType # "PgUUID"
    /\ (c.dataType \in {"custom", "json"} \/ c.dataType \notin KnownKinds)

\* C8 (as stated): in the insert schema an unrefined non-nullable column with
\* a default, of every data kind, may be omitted and may not be null.
C8_DefaultedRejectsNull ==
    (Decoded /\ mode = "insert") =>
        \A i \in Cols :
            (/\ ColumnOf(i).notNull
             /\ ColumnOf(i).hasDefault
             /\ ~IsRefined(i)
             /\ OthersDecode(i)) =>
                /\ OmitsColumn(i) => result.ok
                /\ HoldsInColumn(i, Null) => ~result.ok

\* C8 (amended): such a column may be omitted; null is rejected unless the
\* column is of the json kind (whose union validator has a null member) or of
\* the custom kind or an unrecognised kind (accept-anything), where null is
\* accepted.
C8_DefaultedOmittable ==
    (Decoded /\ mode = "insert") =>
        \A i \in Cols :
            (/\ ColumnOf(i).notNull
             /\ ColumnOf(i).hasDefault
             /\ ~IsRefined(i)
             /\ OthersDecode(i)) =>
                /\ OmitsColumn(i) => result.ok
                /\ HoldsInColumn(i, Null) =>
                      (result.ok <=> MapsToNullAccepting(ColumnOf(i)))

C8_Witness ==
    /\ Decoded
    /\ mode = "insert"
    /\ Len(table) = 2
    /\ ColumnOf(1).notNull
    /\ ColumnOf(1).hasDefault
    /\ ColumnOf(1).dataType = "date"
    /\ ~IsRefined(1)
    /\ OthersDecode(1)
    /\ HoldsInColumn(1, Null)
    /\ ~result.ok

\* C9: the fields of the derived schema are exactly the table's column
\* names, whatever keys the refinement map holds.
C9_FieldsAreColumns ==
    Derived => Range(ObjKeys(schema)) = Range(ObjKeys(table))

(***************************************************************************)
(* SpecPair: createInsertSchema and createSelectSchema called on the same  *)
(* table and the same refinement map of plain validators, and one record   *)
(* decoded with both schemas.                                              *)
(***************************************************************************)
PlainRefines(t) ==
    { r \in Refines(t) : \A i \in DOMAIN r : ~IsRefineFunction(r[i].value) }

PairProbeValues == ProbeValues \cup {Undefined}

\* a record the select schema decodes, and the records that differ from it in
\* one column: omitted, or set to a probe value
PairProbeRecords(t, fields) ==
    { SampleRecord(fields) }
    \cup { ObjDelete(SampleRecord(fields), k) : k \in Range(ObjKeys(t)) }
    \cup { ObjSet(SampleRecord(fields), k, v) :
             k \in Range(ObjKeys(t)), v \in PairProbeValues }

InitPair ==
    /\ pc = "pair"
    /\ table \in Tables
    /\ refineGiven \in BOOLEAN
    /\ refine \in (IF refineGiven THEN PlainRefines(table) ELSE {<<>>})
    /\ mode = "both"
    /\ schema = <<>>
    /\ calls = <<>>
    /\ input = <<>>
    /\ result = [ok |-> FALSE]
    /\ selectSchema = <<>>
    /\ selectResult = [ok |-> FALSE]
    /\ column = NoColumn
    /\ mapped = SAny

createInsertSchemaOfPair ==
    /\ pc = "pair"
    /\ schema' = InsertSchemaFields(table, refineGiven, refine)
    /\ calls' = DerivationCalls(table, refineGiven, refine)
    /\ pc' = "pairInsert"
    /\ UNCHANGED <<table, refineGiven, refine, mode, input, result, column, mapped, selectSchema, selectResult>>

createSelectSchemaOfPair ==
    /\ pc = "pairInsert"
    /\ selectSchema' = SelectSchemaFields(table, refineGiven, refine)
    /\ pc' = "pairDerived"
    /\ UNCHANGED <<table, refineGiven, refine, mode, schema, calls, input, result, column, mapped, selectResult>>

\* Schema.decodeUnknownEither of each schema on the same record
DecodeBoth ==
    /\ pc = "pairDerived"
    /\ \E rec \in PairProbeRecords(table, selectSchema) :
          /\ input' = rec
          /\ result' = DecodeStruct(schema, rec)
          /\ selectResult' = DecodeStruct(selectSchema, rec)
    /\ pc' = "pairDecoded"
    /\ UNCHANGED <<table, refineGiven, refine, mode, schema, calls, column, mapped, selectSchema>>

NextPair == createInsertSchemaOfPair \/ createSelectSchemaOfPair \/ DecodeBoth

SpecPair == InitPair /\ [][NextPair]_vars

\* C11: with plain validators (or no refinements), every record the select
\* schema decodes is decoded by the insert schema of the same table and
\* refinements; a record the insert schema decodes and the select schema
\* does not is rejected by select only in fields of columns that insert
\* makes optional and that the record omits (or holds as undefined).
C11_InsertAtLeastAsPermissive ==
    pc = "pairDecoded" =>
        /\ selectResult.ok => result.ok
        /\ (result.ok /\ ~selectResult.ok) =>
              \A j \in DOMAIN selectSchema :
                  ~FieldDecodes(selectSchema[j], input) =>
                      \E i \in Cols :
                          /\ NameOf(i) = selectSchema[j].key
                          /\ ~ColumnOf(i).notNull \/ ColumnOf(i).hasDefault
                          /\ FieldOf(i).tag = "optional"
                          /\ OmitsColumn(i) \/ HoldsInColumn(i, Undefined)

C11_Witness ==
    /\ pc = "pairDecoded"
    /\ Len(table) = 2
    /\ ~IsRefined(1)
    /\ IsRefined(2)
    /\ ColumnOf(1).notNull = FALSE
    /\ ColumnOf(1).hasDefault
    /\ ColumnOf(1).dataType = "date"
    /\ HoldsInColumn(1, Null)
    /\ selectResult.ok
    /\ result.ok

====
